---- MODULE Spec2Model ----
(***************************************************************************)
(* Model of the UTCP-MCP bridge: the embedding tool repository             *)
(* (simple-utcp-client-mcp.py, class EmbeddingInMemRepo) and the proxy     *)
(* that mirrors a tool repository into the MCP runtime                     *)
(* (src/utcp_proxy_mcp.py, class UTCPProxy), the HTTP handlers that keep   *)
(* the providers file and the two clients together (src/server.py), and    *)
(* the searches of the repository and of ToolSelector.                     *)
(*                                                                         *)
(* Names.  A provider name or a tool name is a Python string; the code     *)
(* only ever looks at it through '.' (split(".")[0], startswith(p + "."),  *)
(* equality).  A string is therefore modelled as the sequence of its       *)
(* dot-free segments: "a.b.x" is <<"a", "b", "x">>.                        *)
(***************************************************************************)
EXTENDS Integers, Sequences, FiniteSets, TLC

Range(s) == {s[i] : i \in DOMAIN s}
Only(S) == CHOOSE x \in S : TRUE

\* ------------------------------------------------------------------ bounds
\* most tools whose embedding fails during one save_provider_with_tools
MaxFail == 1

\* ---------------------------------------------------------------- universes
\* local tool names, in the order a provider lists them
LocalList == <<"x", "y">>
Locals == Range(LocalList)
LocalIndex(l) == CHOOSE i \in DOMAIN LocalList : LocalList[i] = l

\* provider names "a" and "a.b": the second contains a '.', and the first
\* followed by '.' is a prefix of it
ProviderNames == {<<"a">>, <<"a", "b">>}

\* the tag lists a tool can carry
TagSets == {{"t1"}, {"t2"}}

\* a tool of provider p is named "<p>.<local>"
ToolName(p, l) == Append(p, l)
ToolNames == {ToolName(p, l) : p \in ProviderNames, l \in Locals}
ToolsOf(p) == {[name |-> ToolName(p, l), tags |-> tg] : l \in Locals, tg \in TagSets}

Names(s) == {s[i].name : i \in DOMAIN s}
LocalOf(t) == t.name[Len(t.name)]

\* what a provider can resolve into: tools with pairwise distinct names, in
\* the order of their local names
ToolLists(p) ==
    {s \in UNION {[1..n -> ToolsOf(p)] : n \in 0..Len(LocalList)} :
        \A i, j \in DOMAIN s : i < j => LocalIndex(LocalOf(s[i])) < LocalIndex(LocalOf(s[j]))}

\* outcome of the embedding model during one save: batch = FALSE when
\* embed_batch raises; fail = the tools whose embedding fails (an empty
\* vector in the batch, an exception in the per-tool fallback)
EmbedOutcomes(tls) ==
    {[batch |-> b, fail |-> f] : b \in (IF tls = <<>> THEN {TRUE} ELSE BOOLEAN),
                                 f \in {g \in SUBSET Names(tls) : Cardinality(g) <= MaxFail}}

\* the text the embedding is computed from stands for the vector
embed_text(tool) == <<tool.name, tool.tags>>

\* ------------------------------------------------------------------- state
VARIABLES
    tools,              \* EmbeddingInMemRepo.tools: the flat tool sequence
    tool_per_provider,  \* EmbeddingInMemRepo.tool_per_provider: name -> tools
    tool_embeddings,    \* EmbeddingInMemRepo._tool_embeddings: tool name -> vector
    all_tags,           \* EmbeddingInMemRepo._all_tags
    last,               \* the last repository operation, its inputs and result
    before              \* the repository before the last save of a provider name
                        \* that was absent, kept while that save, or the
                        \* remove_provider of the same name right after it, is
                        \* the last operation

VARIABLES
    app,                \* server.py lifespan: "starting", "running" or "failed"
    client,             \* UTCPProxy.client: <<>> for None, else <<repository>>
    proxy_tools,        \* UTCPProxy.tools
    proxy_providers,    \* UTCPProxy.providers
    mcp_tools           \* the callables registered with UTCPProxy.mcp, by name

VARIABLES
    providers_file,     \* server.py: the JSON list stored at PROVIDERS_PATH
    utcp_client         \* UTCPClient.client: <<>> for None, else <<repository>>

VARIABLES
    tasks               \* the coroutines running repository calls on the event
                        \* loop: where each one is suspended, and its locals

repo_vars == <<tools, tool_per_provider, tool_embeddings, all_tags, before, tasks>>
proxy_vars == <<app, client, proxy_tools, proxy_providers, mcp_tools>>
server_vars == <<providers_file, utcp_client>>
vars == <<tools, tool_per_provider, tool_embeddings, all_tags, last, before,
          app, client, proxy_tools, proxy_providers, mcp_tools,
          providers_file, utcp_client, tasks>>

\* two coroutines, none of them started
TaskIds == {"first", "second"}
IdleTasks == [t \in TaskIds |-> [pc |-> "idle"]]

Repo ==
    [tools |-> tools, tool_per_provider |-> tool_per_provider,
     tool_embeddings |-> tool_embeddings, all_tags |-> all_tags]

EmptyRepo ==
    [tools |-> <<>>, tool_per_provider |-> <<>>, tool_embeddings |-> <<>>,
     all_tags |-> {}]

TagUnion(s) == UNION {s[i].tags : i \in DOMAIN s}
Without(f, k) == [x \in DOMAIN f \ {k} |-> f[x]]
WithoutAll(f, ks) == [x \in DOMAIN f \ ks |-> f[x]]

\* ------------------------------------------------------- EmbeddingInMemRepo
\* remove_provider without the loop that pops the removed tools' embeddings
remove_provider_keeps_embeddings(repo, provider_name) ==
    IF provider_name \notin DOMAIN repo.tool_per_provider
    THEN [repo |-> repo, err |-> "ValueError"]
    ELSE LET tools_to_remove == repo.tool_per_provider[provider_name]
             kept == SelectSeq(repo.tools, LAMBDA t : t \notin Range(tools_to_remove))
         IN [repo |-> [tools |-> kept,
                       tool_per_provider |-> Without(repo.tool_per_provider, provider_name),
                       tool_embeddings |-> repo.tool_embeddings,
                       all_tags |-> TagUnion(kept)],
             err |-> "none"]

\* remove_provider without the membership check: an unknown name is popped
\* with a default and the call returns normally
remove_provider_unchecked(repo, provider_name) ==
    LET tools_to_remove == IF provider_name \in DOMAIN repo.tool_per_provider
                           THEN repo.tool_per_provider[provider_name]
                           ELSE <<>>
        kept == SelectSeq(repo.tools, LAMBDA t : t \notin Range(tools_to_remove))
    IN [repo |-> [tools |-> kept,
                  tool_per_provider |-> Without(repo.tool_per_provider, provider_name),
                  tool_embeddings |-> WithoutAll(repo.tool_embeddings, Names(tools_to_remove)),
                  all_tags |-> TagUnion(kept)],
        err |-> "none"]

\* remove_provider that removes from the flat sequence by tool name prefix
\* instead of by the provider's own tool list
remove_provider_by_prefix(repo, provider_name) ==
    IF provider_name \notin DOMAIN repo.tool_per_provider
    THEN [repo |-> repo, err |-> "ValueError"]
    ELSE LET tools_to_remove == repo.tool_per_provider[provider_name]
             kept == SelectSeq(repo.tools,
                               LAMBDA t : ~(/\ Len(t.name) > Len(provider_name)
                                            /\ SubSeq(t.name, 1, Len(provider_name)) = provider_name))
         IN [repo |-> [tools |-> kept,
                       tool_per_provider |-> Without(repo.tool_per_provider, provider_name),
                       tool_embeddings |-> WithoutAll(repo.tool_embeddings, Names(tools_to_remove)),
                       all_tags |-> TagUnion(kept)],
             err |-> "none"]

remove_provider(repo, provider_name) ==
    IF provider_name \notin DOMAIN repo.tool_per_provider
    THEN [repo |-> repo, err |-> "ValueError"]
    ELSE LET tools_to_remove == repo.tool_per_provider[provider_name]
             kept == SelectSeq(repo.tools, LAMBDA t : t \notin Range(tools_to_remove))
         IN [repo |-> [tools |-> kept,
                       tool_per_provider |-> Without(repo.tool_per_provider, provider_name),
                       tool_embeddings |-> WithoutAll(repo.tool_embeddings, Names(tools_to_remove)),
                       all_tags |-> TagUnion(kept)],
             err |-> "none"]

\* the embedding loop ended by the first failing tool
Embedded_until_failure(tls, e) ==
    {tls[i] : i \in {j \in DOMAIN tls : \A k \in 1..j : tls[k].name \notin e.fail}}

\* the tools whose embedding is stored, and the tools whose tags reach the cache
Embedded(tls, e) == {tls[i] : i \in {j \in DOMAIN tls : tls[j].name \notin e.fail}}
Tagged(tls, e) == IF e.batch THEN Range(tls) ELSE Embedded(tls, e)

\* save_provider_with_tools without the removal of an existing registration
save_provider_with_tools_no_remove(repo, provider, tls, e) ==
    LET stored == [n \in {t.name : t \in Embedded(tls, e)} |->
                      embed_text(CHOOSE t \in Embedded(tls, e) : t.name = n)]
    IN [tools |-> repo.tools \o tls,
        tool_per_provider |-> (provider :> tls) @@ repo.tool_per_provider,
        tool_embeddings |-> stored @@ repo.tool_embeddings,
        all_tags |-> repo.all_tags \cup UNION {t.tags : t \in Tagged(tls, e)}]

save_provider_with_tools(repo, provider, tls, e) ==
    LET r == IF provider \in DOMAIN repo.tool_per_provider
             THEN remove_provider(repo, provider).repo
             ELSE repo
        stored == [n \in {t.name : t \in Embedded(tls, e)} |->
                      embed_text(CHOOSE t \in Embedded(tls, e) : t.name = n)]
    IN [tools |-> r.tools \o tls,
        tool_per_provider |-> (provider :> tls) @@ r.tool_per_provider,
        tool_embeddings |-> stored @@ r.tool_embeddings,
        all_tags |-> r.all_tags \cup UNION {t.tags : t \in Tagged(tls, e)}]

remove_tool(repo, tool_name) ==
    LET provider_name == <<Head(tool_name)>>
        new_tools == SelectSeq(repo.tools, LAMBDA t : t.name # tool_name)
    IN IF provider_name \notin DOMAIN repo.tool_per_provider
       THEN [repo |-> repo, err |-> "ValueError"]
       ELSE IF Len(new_tools) = Len(repo.tools)
       THEN [repo |-> repo, err |-> "ValueError"]
       ELSE [repo |-> [tools |-> new_tools,
                       tool_per_provider |->
                           [repo.tool_per_provider EXCEPT ![provider_name] =
                               SelectSeq(@, LAMBDA t : t.name # tool_name)],
                       tool_embeddings |-> Without(repo.tool_embeddings, tool_name),
                       all_tags |-> TagUnion(new_tools)],
             err |-> "none"]

get_all_tags(repo) == repo.all_tags

\* ----------------------------------------------------------------- actions
Install(repo) ==
    /\ tools' = repo.tools
    /\ tool_per_provider' = repo.tool_per_provider
    /\ tool_embeddings' = repo.tool_embeddings
    /\ all_tags' = repo.all_tags

\* the objects as their constructors leave them
InitMemory ==
    /\ tools = <<>>
    /\ tool_per_provider = <<>>
    /\ tool_embeddings = <<>>
    /\ all_tags = {}
    /\ last = [op |-> "init"]
    /\ before = EmptyRepo
    /\ app = "starting"
    /\ client = <<>>
    /\ proxy_tools = <<>>
    /\ proxy_providers = <<>>
    /\ mcp_tools = <<>>
    /\ utcp_client = <<>>
    /\ tasks = IdleTasks

Init ==
    /\ InitMemory
    /\ providers_file = <<>>

SaveProviderWithTools ==
    \E p \in ProviderNames : \E tls \in ToolLists(p) : \E e \in EmbedOutcomes(tls) :
        /\ Install(save_provider_with_tools(Repo, p, tls, e))
        /\ last' = [op |-> "save", provider |-> p, tools |-> tls, embed |-> e,
                     fresh |-> p \notin DOMAIN tool_per_provider, err |-> "none"]
        /\ before' = IF p \notin DOMAIN tool_per_provider THEN Repo ELSE EmptyRepo
        /\ UNCHANGED <<proxy_vars, server_vars, tasks>>

RemoveProvider ==
    \E p \in ProviderNames :
        LET r == remove_provider(Repo, p)
            undoes == last.op = "save" /\ last.fresh /\ last.provider = p
        IN /\ Install(r.repo)
           /\ last' = [op |-> "remove_provider", provider |-> p, err |-> r.err,
                        undoes |-> undoes]
           /\ before' = IF undoes THEN before ELSE EmptyRepo
           /\ UNCHANGED <<proxy_vars, server_vars, tasks>>

RemoveTool ==
    \E n \in ToolNames :
        LET r == remove_tool(Repo, n)
        IN /\ Install(r.repo)
           /\ last' = [op |-> "remove_tool", tool |-> n, err |-> r.err]
           /\ before' = EmptyRepo
           /\ UNCHANGED <<proxy_vars, server_vars, tasks>>

Next == SaveProviderWithTools \/ RemoveProvider \/ RemoveTool

Spec == Init /\ [][Next]_vars

\* the repository driven by save_provider_with_tools and remove_provider alone
NextSaveRemove == SaveProviderWithTools \/ RemoveProvider

SpecSaveRemove == Init /\ [][NextSaveRemove]_vars

\* ------------------------------------------------- coroutines on the loop
\* The repository's methods are coroutines of one asyncio event loop.  A
\* coroutine runs uninterrupted up to an await that suspends it: in
\* save_provider_with_tools these are embed_batch and embed, which hand the
\* work to the executor (embed_batch returns at once for no texts);
\* remove_provider and the reads have none.  Other coroutines run while one
\* is suspended; the repository has no lock.

\* lines 136-138: up to the await of embed_batch
save_begin(repo, provider) ==
    IF provider \in DOMAIN repo.tool_per_provider
    THEN remove_provider(repo, provider).repo
    ELSE repo

\* self._tool_embeddings[tool.name] = embedding; self._all_tags.update(tool.tags)
store_embedding(repo, tool) ==
    [repo EXCEPT !.tool_embeddings = (tool.name :> embed_text(tool)) @@ @,
                 !.all_tags = @ \cup tool.tags]

\* lines 146-150: the loop over zip(tools, embeddings) after embed_batch
\* returned; an empty vector is not stored
RECURSIVE store_batch(_, _, _)
store_batch(repo, tls, e) ==
    IF tls = <<>> THEN repo
    ELSE store_batch(IF Head(tls).name \in e.fail
                     THEN [repo EXCEPT !.all_tags = @ \cup Head(tls).tags]
                     ELSE store_embedding(repo, Head(tls)),
                     Tail(tls), e)

\* lines 165-166
save_end(repo, provider, tls) ==
    [repo EXCEPT !.tools = @ \o tls,
                 !.tool_per_provider = (provider :> tls) @@ @]

\* the reads: get_tools and get_providers return what the fields hold
Repo_get_tools(repo) == repo.tools
Repo_get_providers(repo) == DOMAIN repo.tool_per_provider

\* the catalog the coroutines start on: provider "a" with one tool
TaskStart ==
    save_provider_with_tools(EmptyRepo, <<"a">>,
                             <<[name |-> ToolName(<<"a">>, LocalList[1]), tags |-> {"t1"}]>>,
                             [batch |-> TRUE, fail |-> {}])

InitTasks ==
    /\ tools = TaskStart.tools
    /\ tool_per_provider = TaskStart.tool_per_provider
    /\ tool_embeddings = TaskStart.tool_embeddings
    /\ all_tags = TaskStart.all_tags
    /\ last = [op |-> "init"]
    /\ before = EmptyRepo
    /\ app = "starting"
    /\ client = <<>>
    /\ proxy_tools = <<>>
    /\ proxy_providers = <<>>
    /\ mcp_tools = <<>>
    /\ utcp_client = <<>>
    /\ providers_file = <<>>
    /\ tasks = IdleTasks

Done(call, err) == [pc |-> "done", call |-> call, err |-> err]

\* save_provider_with_tools is called and runs to its first suspension
CallSave(t) ==
    /\ tasks[t].pc = "idle"
    /\ \E p \in ProviderNames : \E tls \in ToolLists(p) : \E e \in EmbedOutcomes(tls) :
        LET r == save_begin(Repo, p)
            c == [op |-> "save", provider |-> p, tools |-> tls, embed |-> e]
        IN IF tls = <<>>
           THEN /\ Install(save_end(r, p, tls))
                /\ tasks' = [tasks EXCEPT ![t] = Done(c, "none")]
           ELSE /\ Install(r)
                /\ tasks' = [tasks EXCEPT ![t] = [pc |-> "embed_batch", call |-> c]]
    /\ UNCHANGED <<last, before, proxy_vars, server_vars>>

\* embed_batch returns: the embeddings are stored and the tools inserted, or
\* it raised and the fallback awaits the embedding of the first tool
BatchReturns(t) ==
    /\ tasks[t].pc = "embed_batch"
    /\ LET c == tasks[t].call
       IN IF c.embed.batch
          THEN /\ Install(save_end(store_batch(Repo, c.tools, c.embed), c.provider, c.tools))
               /\ tasks' = [tasks EXCEPT ![t] = Done(c, "none")]
          ELSE /\ UNCHANGED <<tools, tool_per_provider, tool_embeddings, all_tags>>
               /\ tasks' = [tasks EXCEPT ![t] = [pc |-> "embed", call |-> c, i |-> 1]]
    /\ UNCHANGED <<last, before, proxy_vars, server_vars>>

\* embed returns for tool i of the fallback loop (or raised, and the tool is
\* passed over); after the last tool the tools are inserted
EmbedReturns(t) ==
    /\ tasks[t].pc = "embed"
    /\ LET c == tasks[t].call
           i == tasks[t].i
           r == IF c.tools[i].name \in c.embed.fail
                THEN Repo
                ELSE store_embedding(Repo, c.tools[i])
       IN IF i = Len(c.tools)
          THEN /\ Install(save_end(r, c.provider, c.tools))
               /\ tasks' = [tasks EXCEPT ![t] = Done(c, "none")]
          ELSE /\ Install(r)
               /\ tasks' = [tasks EXCEPT ![t] = [pc |-> "embed", call |-> c, i |-> i + 1]]
    /\ UNCHANGED <<last, before, proxy_vars, server_vars>>

\* remove_provider is called and runs to its end
CallRemove(t) ==
    /\ tasks[t].pc = "idle"
    /\ \E p \in ProviderNames :
        LET r == remove_provider(Repo, p)
        IN /\ Install(r.repo)
           /\ tasks' = [tasks EXCEPT ![t] = Done([op |-> "remove", provider |-> p], r.err)]
    /\ UNCHANGED <<last, before, proxy_vars, server_vars>>

NextTasks ==
    \E t \in TaskIds : CallSave(t) \/ BatchReturns(t) \/ EmbedReturns(t) \/ CallRemove(t)

SpecTasks == InitTasks /\ [][NextTasks]_vars

\* ---------------------------------------------------------------- UTCPProxy
\* Schema property names.  TLC strings are atomic, so the two string
\* operations of _create_tool_proxy are given by what they do to each name.
PropNames == {"q", "n", "x", "x[]", "class", "class_"}
endswith_brackets(orig_name) == orig_name = "x[]"
strip_brackets(orig_name) == IF orig_name = "x[]" THEN "x" ELSE orig_name
iskeyword(py_name) == py_name = "class"
append_underscore(py_name) == IF py_name = "class" THEN "class_" ELSE py_name

\* input schemas a tool can declare: properties in order, and the required ones
Schemas ==
    {[properties |-> <<"q">>, required |-> {"q"}],
     [properties |-> <<"n", "q">>, required |-> {"q"}],
     [properties |-> <<"x", "x[]">>, required |-> {}]}
PlainSchema == [properties |-> <<"q">>, required |-> {"q"}]

\* the tools the proxied client can resolve provider p into: the first local
\* name with any schema, the others with the plain one
ProxyToolsOf(p) ==
    {[name |-> ToolName(p, l), inputs |-> sc] :
        l \in Locals, sc \in Schemas} \ 
    {[name |-> ToolName(p, l), inputs |-> sc] :
        l \in Locals \ {LocalList[1]}, sc \in Schemas \ {PlainSchema}}
ProxyToolLists(p) ==
    {s \in UNION {[1..n -> ProxyToolsOf(p)] : n \in 0..Len(LocalList)} :
        \A i, j \in DOMAIN s : i < j => LocalIndex(LocalOf(s[i])) < LocalIndex(LocalOf(s[j]))}

py_name_safe(orig_name) ==
    LET py_name == IF endswith_brackets(orig_name) THEN strip_brackets(orig_name) ELSE orig_name
    IN IF iskeyword(py_name) THEN append_underscore(py_name) ELSE py_name

is_required(orig_name, required) ==
    LET py_name == IF endswith_brackets(orig_name) THEN strip_brackets(orig_name) ELSE orig_name
    IN py_name \in required \/ orig_name \in required

\* _create_tool_proxy: the parameter list of the generated function (required
\* parameters, then optional ones), the map from parameter to property name,
\* and whether exec accepts the generated code (Python rejects a parameter
\* list that names a parameter twice)
create_tool_proxy(tool) ==
    LET props == tool.inputs.properties
        required == tool.inputs.required
        required_params == SelectSeq([i \in DOMAIN props |-> props[i]],
                                     LAMBDA o : is_required(o, required))
        optional_params == SelectSeq([i \in DOMAIN props |-> props[i]],
                                     LAMBDA o : ~is_required(o, required))
        origs == required_params \o optional_params
        params == [i \in DOMAIN origs |-> py_name_safe(origs[i])]
        last_with(pn) == CHOOSE i \in DOMAIN props :
                            /\ py_name_safe(props[i]) = pn
                            /\ \A j \in DOMAIN props : py_name_safe(props[j]) = pn => j <= i
    IN [name |-> tool.name,
        params |-> params,
        param_map |-> [pn \in Range(params) |-> props[last_with(pn)]],
        optional |-> {py_name_safe(o) : o \in Range(optional_params)},
        guarded |-> TRUE,
        ok |-> \A i, j \in DOMAIN params : i # j => params[i] # params[j]]

\* mvp-server.py make_proxy: the same without the keyword renaming (Python
\* rejects a keyword as a parameter name as well)
make_proxy(tool) ==
    LET props == tool.inputs.properties
        required == tool.inputs.required
        py_name(o) == IF endswith_brackets(o) THEN strip_brackets(o) ELSE o
        required_params == SelectSeq([i \in DOMAIN props |-> props[i]],
                                     LAMBDA o : is_required(o, required))
        optional_params == SelectSeq([i \in DOMAIN props |-> props[i]],
                                     LAMBDA o : ~is_required(o, required))
        origs == required_params \o optional_params
        params == [i \in DOMAIN origs |-> py_name(origs[i])]
        last_with(pn) == CHOOSE i \in DOMAIN props :
                            /\ py_name(props[i]) = pn
                            /\ \A j \in DOMAIN props : py_name(props[j]) = pn => j <= i
    IN [name |-> tool.name,
        params |-> params,
        param_map |-> [pn \in Range(params) |-> props[last_with(pn)]],
        optional |-> {py_name(o) : o \in Range(optional_params)},
        guarded |-> FALSE,
        ok |-> /\ \A i, j \in DOMAIN params : i # j => params[i] # params[j]
               /\ \A i \in DOMAIN params : ~iskeyword(params[i])]

\* The generated function called with the keyword arguments `supplied` (a
\* function from parameter names to values; a parameter left out keeps its
\* default None).  Python raises TypeError for an unknown or a missing
\* required parameter before the body runs.  The body fills args per entry of
\* param_map, under `if <param> is not None` in _create_tool_proxy and
\* unconditionally in make_proxy, and awaits call_tool(name, args): its
\* result is returned, its exception propagates.
None == "None"
Values == {"v1", "v2"}
invoke(pf, supplied, call_fails) ==
    IF \/ DOMAIN supplied \ Range(pf.params) # {}
       \/ (Range(pf.params) \ pf.optional) \ DOMAIN supplied # {}
    THEN [call |-> <<>>, result |-> None, err |-> "TypeError"]
    ELSE LET value(pn) == IF pn \in DOMAIN supplied THEN supplied[pn] ELSE None
             keys == {pn \in Range(pf.params) : ~pf.guarded \/ value(pn) # None}
             inverse(o) == CHOOSE pn \in keys : pf.param_map[pn] = o
             args == [o \in {pf.param_map[pn] : pn \in keys} |-> value(inverse(o))]
         IN [call |-> <<[name |-> pf.name, args |-> args]>>,
             result |-> IF call_fails THEN None ELSE "result",
             err |-> IF call_fails THEN "ToolCallError" ELSE "none"]

\* The UtcpClient and its tool repository are the transport collaborator: a
\* repository is the sequence of its registered providers with their tools.
get_providers(repo) == [i \in DOMAIN repo |-> repo[i].name]

RECURSIVE get_tools(_)
get_tools(repo) ==
    IF repo = <<>> THEN <<>> ELSE Head(repo).tools \o get_tools(Tail(repo))

\* register: upsert of the resolved tools
register_tool_provider(repo, provider, tls) ==
    Append(SelectSeq(repo, LAMBDA e : e.name # provider), [name |-> provider, tools |-> tls])

\* deregister: ValueError for an unknown name; the transport may fail, and
\* then the repository keeps the provider
deregister_tool_provider(repo, provider_name, transport_fails) ==
    IF provider_name \notin Range(get_providers(repo))
    THEN [repo |-> repo, err |-> "ValueError"]
    ELSE IF transport_fails
    THEN [repo |-> repo, err |-> "TransportError"]
    ELSE [repo |-> SelectSeq(repo, LAMBDA e : e.name # provider_name), err |-> "none"]

Proxy ==
    [client |-> client, tools |-> proxy_tools, providers |-> proxy_providers,
     mcp |-> mcp_tools]

\* tool_name.startswith(provider_name + ".")
startswith_prefix(tool_name, provider_name) ==
    /\ Len(tool_name) > Len(provider_name)
    /\ SubSeq(tool_name, 1, Len(provider_name)) = provider_name

\* self.mcp.tool(name=...)(proxy_func) for each tool of tls in turn that is in
\* wanted; a tool whose proxy cannot be created is skipped when the caller
\* catches the exception (add_provider), and ends the loop when it does not
\* (initialize); reg is the registry with the names handed to mcp.tool so far
RECURSIVE register_proxies_aborting(_, _, _, _)
register_proxies_aborting(reg, tls, wanted, catch) ==
    IF tls = <<>> THEN reg
    ELSE LET tool == Head(tls)
             pf == create_tool_proxy(tool)
         IN IF tool.name \notin wanted
            THEN register_proxies_aborting(reg, Tail(tls), wanted, catch)
            ELSE IF pf.ok
            THEN register_proxies_aborting(
                     [reg EXCEPT !.mcp = (tool.name :> pf) @@ @,
                                 !.registered = Append(@, tool.name)],
                     Tail(tls), wanted, catch)
            ELSE IF catch THEN reg
            ELSE [reg EXCEPT !.err = "SyntaxError"]

RECURSIVE register_proxies(_, _, _, _)
register_proxies(reg, tls, wanted, catch) ==
    IF tls = <<>> THEN reg
    ELSE LET tool == Head(tls)
             pf == create_tool_proxy(tool)
         IN IF tool.name \notin wanted
            THEN register_proxies(reg, Tail(tls), wanted, catch)
            ELSE IF pf.ok
            THEN register_proxies(
                     [reg EXCEPT !.mcp = (tool.name :> pf) @@ @,
                                 !.registered = Append(@, tool.name)],
                     Tail(tls), wanted, catch)
            ELSE IF catch
            THEN register_proxies(reg, Tail(tls), wanted, catch)
            ELSE [reg EXCEPT !.err = "SyntaxError"]

\* self.mcp.remove_tool(tool_name) for each name in turn; the runtime raises
\* for a name it has no tool for, the exception is caught and logged (the
\* name joins reg.failed) and the loop goes on
RECURSIVE unregister_proxies(_, _)
unregister_proxies(reg, tools_to_remove) ==
    IF tools_to_remove = <<>> THEN reg
    ELSE LET tool_name == Head(tools_to_remove)
         IN IF tool_name \in DOMAIN reg.mcp
            THEN unregister_proxies([reg EXCEPT !.mcp = Without(reg.mcp, tool_name)],
                                    Tail(tools_to_remove))
            ELSE unregister_proxies([reg EXCEPT !.failed = Append(@, tool_name)],
                                    Tail(tools_to_remove))

\* UTCPProxy.initialize, the client created with the providers of `loaded`
initialize(px, loaded) ==
    LET tls == get_tools(loaded)
        reg == register_proxies([mcp |-> px.mcp, registered |-> <<>>, err |-> "none"], tls, Names(tls), FALSE)
    IN [px |-> [client |-> <<loaded>>, tools |-> tls,
                providers |-> get_providers(loaded), mcp |-> reg.mcp],
        err |-> reg.err]

proxy_add_provider_registers_all(px, provider_name, resolved) ==
    IF resolved = <<>>
    THEN [px |-> px, err |-> "ProviderResolutionError", registered |-> <<>>]
    ELSE LET repo == register_tool_provider(px.client[1], provider_name, resolved[1])
             tls == get_tools(repo)
             reg == register_proxies([mcp |-> px.mcp, registered |-> <<>>, err |-> "none"],
                                     tls, Names(tls), TRUE)
         IN [px |-> [client |-> <<repo>>, tools |-> tls,
                     providers |-> get_providers(repo), mcp |-> reg.mcp],
             err |-> "none", registered |-> reg.registered]

proxy_add_provider_half_registered(px, provider_name, resolved) ==
    LET old_tools == Names(px.tools)
        repo == register_tool_provider(px.client[1], provider_name,
                                       IF resolved = <<>> THEN <<>> ELSE resolved[1])
        tls == get_tools(repo)
        tools_to_add == Names(tls) \ old_tools
        reg == register_proxies([mcp |-> px.mcp, registered |-> <<>>, err |-> "none"], tls, tools_to_add, TRUE)
    IN [px |-> [client |-> <<repo>>, tools |-> tls,
                providers |-> get_providers(repo), mcp |-> reg.mcp],
        err |-> IF resolved = <<>> THEN "ProviderResolutionError" ELSE "none",
        registered |-> reg.registered]

\* UTCPProxy.add_provider; resolved is <<>> when the client fails to
\* register the provider, else <<the tools it resolves into>>
proxy_add_provider(px, provider_name, resolved) ==
    LET old_tools == Names(px.tools)
    IN IF resolved = <<>>
       THEN [px |-> px, err |-> "ProviderResolutionError", registered |-> <<>>]
       ELSE LET repo == register_tool_provider(px.client[1], provider_name, resolved[1])
                tls == get_tools(repo)
                tools_to_add == Names(tls) \ old_tools
                reg == register_proxies([mcp |-> px.mcp, registered |-> <<>>, err |-> "none"], tls, tools_to_add, TRUE)
            IN [px |-> [client |-> <<repo>>, tools |-> tls,
                        providers |-> get_providers(repo), mcp |-> reg.mcp],
                err |-> "none", registered |-> reg.registered]

\* UTCPProxy.add_provider from line 105 on, for a call that took old_tools
\* at line 101 and was suspended in `await register_tool_provider` since:
\* px is the proxy as it is when the registration returns
proxy_add_provider_resumed(px, old_tools, provider_name, resolved) ==
    IF resolved = <<>>
    THEN [px |-> px, err |-> "ProviderResolutionError", registered |-> <<>>]
    ELSE LET repo == register_tool_provider(px.client[1], provider_name, resolved[1])
             tls == get_tools(repo)
             tools_to_add == Names(tls) \ old_tools
             reg == register_proxies([mcp |-> px.mcp, registered |-> <<>>, err |-> "none"], tls, tools_to_add, TRUE)
         IN [px |-> [client |-> <<repo>>, tools |-> tls,
                     providers |-> get_providers(repo), mcp |-> reg.mcp],
             err |-> "none", registered |-> reg.registered]

proxy_remove_provider_ignoring_unknown(px, provider_name, transport_fails) ==
    LET tool_names == [i \in DOMAIN px.tools |-> px.tools[i].name]
        tools_to_remove == SelectSeq(tool_names,
                                     LAMBDA n : startswith_prefix(n, provider_name))
        unreg == unregister_proxies([mcp |-> px.mcp, failed |-> <<>>], tools_to_remove)
        dereg == deregister_tool_provider(px.client[1], provider_name, transport_fails)
    IN IF dereg.err = "TransportError"
       THEN [px |-> [px EXCEPT !.mcp = unreg.mcp], err |-> dereg.err,
             tools_to_remove |-> tools_to_remove, failed |-> unreg.failed]
       ELSE [px |-> [client |-> <<dereg.repo>>, tools |-> get_tools(dereg.repo),
                     providers |-> get_providers(dereg.repo), mcp |-> unreg.mcp],
             err |-> "none",
             tools_to_remove |-> tools_to_remove, failed |-> unreg.failed]

\* UTCPProxy.remove_provider
proxy_remove_provider(px, provider_name, transport_fails) ==
    LET tool_names == [i \in DOMAIN px.tools |-> px.tools[i].name]
        tools_to_remove == SelectSeq(tool_names,
                                     LAMBDA n : startswith_prefix(n, provider_name))
        unreg == unregister_proxies([mcp |-> px.mcp, failed |-> <<>>], tools_to_remove)
        mcp == unreg.mcp
        dereg == deregister_tool_provider(px.client[1], provider_name, transport_fails)
    IN IF dereg.err # "none"
       THEN [px |-> [px EXCEPT !.mcp = mcp], err |-> dereg.err,
             tools_to_remove |-> tools_to_remove, failed |-> unreg.failed]
       ELSE [px |-> [client |-> <<dereg.repo>>, tools |-> get_tools(dereg.repo),
                     providers |-> get_providers(dereg.repo), mcp |-> mcp],
             err |-> "none",
             tools_to_remove |-> tools_to_remove, failed |-> unreg.failed]

InstallProxy(px) ==
    /\ client' = px.client
    /\ proxy_tools' = px.tools
    /\ proxy_providers' = px.providers
    /\ mcp_tools' = px.mcp

\* the providers file the client is created from: any providers, in the
\* order of ProviderList, each resolved into tools
ProviderList == << <<"a">>, <<"a", "b">> >>
LoadedRepos ==
    {SelectSeq([i \in DOMAIN ProviderList |-> [name |-> ProviderList[i], tools |-> f[i]]],
               LAMBDA e : e.name \in ps) :
        ps \in SUBSET ProviderNames,
        f \in [DOMAIN ProviderList -> UNION {ProxyToolLists(p) : p \in ProviderNames}]}

LoadedOk(repo) == \A i \in DOMAIN repo : repo[i].tools \in ProxyToolLists(repo[i].name)

\* server.py lifespan: utcp_proxy.initialize(); a failure ends the start-up
Initialize ==
    /\ app = "starting"
    /\ \E loaded \in {r \in LoadedRepos : LoadedOk(r)} :
        LET r == initialize(Proxy, loaded)
        IN /\ InstallProxy(r.px)
           /\ app' = IF r.err = "none" THEN "running" ELSE "failed"
           /\ last' = [op |-> "initialize", err |-> r.err]
    /\ UNCHANGED <<repo_vars, server_vars>>

AddProvider ==
    /\ app = "running" /\ client # <<>>
    /\ \E p \in ProviderNames :
       \E resolved \in {<<>>} \cup {<<tls>> : tls \in ProxyToolLists(p)} :
        LET r == proxy_add_provider(Proxy, p, resolved)
        IN /\ InstallProxy(r.px)
           /\ last' = [op |-> "proxy_add_provider", provider |-> p, err |-> r.err,
                        resolution_failed |-> resolved = <<>>,
                        registered |-> r.registered]
    /\ UNCHANGED <<app, repo_vars, server_vars>>

RemoveProxyProvider ==
    /\ app = "running" /\ client # <<>>
    /\ \E p \in ProviderNames : \E transport_fails \in BOOLEAN :
        LET r == proxy_remove_provider(Proxy, p, transport_fails)
        IN /\ InstallProxy(r.px)
           /\ last' = [op |-> "proxy_remove_provider", provider |-> p, err |-> r.err,
                        tools_to_remove |-> r.tools_to_remove, failed |-> r.failed]
    /\ UNCHANGED <<app, repo_vars, server_vars>>

NextProxy == Initialize \/ AddProvider \/ RemoveProxyProvider

SpecProxy == Init /\ [][NextProxy]_vars

\* ------------------------------------------------------ proxy synthesis
\* The two proxy generators applied to one tool with any of the schemas
\* below, the generated function kept under the tool's name as the runtime
\* keeps it, and the kept functions called.
SynthSchemas ==
    Schemas \cup
    {[properties |-> <<"class">>, required |-> {}],
     [properties |-> <<"class", "class_">>, required |-> {"class"}],
     [properties |-> <<"n", "x[]">>, required |-> {"x[]"}],
     [properties |-> <<"x[]", "q">>, required |-> {"x"}]}
SynthTools == {[name |-> ToolName(<<"a">>, LocalList[1]), inputs |-> sc] : sc \in SynthSchemas}

\* the keyword arguments of a call: any parameters of the function, and
\* possibly one it does not have, each with a value
Keywords(pf) ==
    UNION {[ps -> Values] : ps \in SUBSET (Range(pf.params) \cup {"other"})}

\* exec(func_code) raises SyntaxError for a parameter list Python rejects,
\* and then no function is kept
kept(pf) == IF pf.ok THEN (pf.name :> pf) @@ mcp_tools ELSE mcp_tools
synthesized(generator, pf) ==
    [op |-> generator, proxy |-> pf, err |-> IF pf.ok THEN "none" ELSE "SyntaxError"]

CreateToolProxy ==
    /\ \E tool \in SynthTools :
        /\ mcp_tools' = kept(create_tool_proxy(tool))
        /\ last' = synthesized("create_tool_proxy", create_tool_proxy(tool))
    /\ UNCHANGED <<app, client, proxy_tools, proxy_providers, repo_vars, server_vars>>

MakeProxy ==
    /\ \E tool \in SynthTools :
        /\ mcp_tools' = kept(make_proxy(tool))
        /\ last' = synthesized("make_proxy", make_proxy(tool))
    /\ UNCHANGED <<app, client, proxy_tools, proxy_providers, repo_vars, server_vars>>

Invoke ==
    /\ \E n \in DOMAIN mcp_tools : \E supplied \in Keywords(mcp_tools[n]) :
       \E call_fails \in BOOLEAN :
        LET r == invoke(mcp_tools[n], supplied, call_fails)
        IN last' = [op |-> "invoke", proxy |-> mcp_tools[n], supplied |-> supplied,
                    call |-> r.call, result |-> r.result, err |-> r.err,
                    call_fails |-> call_fails]
    /\ UNCHANGED <<proxy_vars, repo_vars, server_vars>>

NextSynth == CreateToolProxy \/ MakeProxy \/ Invoke

SpecSynth == Init /\ [][NextSynth]_vars

\* ------------------------------------------------------------------- server
\* Provider descriptors as they arrive in a request body: the name, the
\* provider_type and the field the provider class requires (url, "" when
\* the body leaves it out).
Descriptors ==
    {[name |-> <<"a">>, provider_type |-> "http", url |-> "u1"],
     [name |-> <<"a", "b">>, provider_type |-> "http", url |-> "u1"],
     [name |-> <<"a", "b">>, provider_type |-> "ftp", url |-> "u1"],
     [name |-> <<"a">>, provider_type |-> "http", url |-> ""]}

provider_classes ==
    {"http", "cli", "sse", "http_stream", "websocket", "grpc", "graphql",
     "tcp", "udp", "webrtc", "mcp", "text"}

\* provider_class.model_validate(provider): the required field is there
model_validate(provider) == provider.url # ""

ValidDescriptors ==
    {d \in Descriptors : d.provider_type \in provider_classes /\ model_validate(d)}

\* request bodies of PUT /providers: lists with at most as many entries as
\* there are provider names, repeated names and repeated entries included
ProviderLists ==
    UNION {[1..n -> Descriptors] : n \in 0..Cardinality(ProviderNames)}

\* the providers file at start-up
InitialFiles ==
    {f \in ProviderLists :
        /\ \A i \in DOMAIN f : f[i] \in ValidDescriptors
        /\ \A i, j \in DOMAIN f : i # j => f[i].name # f[j].name}

\* the tools the manual behind a descriptor holds
Resolve(d) == <<[name |-> ToolName(d.name, LocalList[1]), inputs |-> PlainSchema]>>

\* UtcpClient.create: the providers of the file registered in file order
RECURSIVE load_providers(_, _)
load_providers(repo, file) ==
    IF file = <<>> THEN repo
    ELSE load_providers(register_tool_provider(repo, Head(file).name, Resolve(Head(file))),
                        Tail(file))

read_providers_file(file) == file

\* the validation loop stopped after the first descriptor
validation_error_head_only(new_providers) ==
    IF new_providers = <<>> THEN "none"
    ELSE IF Head(new_providers).provider_type \notin provider_classes
    THEN "400 Unsupported provider_type"
    ELSE IF ~model_validate(Head(new_providers))
    THEN "400 Invalid provider data"
    ELSE "none"

\* the first validation failure of the loop over new_providers, "none" when
\* every descriptor passes
RECURSIVE validation_error(_)
validation_error(new_providers) ==
    IF new_providers = <<>> THEN "none"
    ELSE IF Head(new_providers).provider_type \notin provider_classes
    THEN "400 Unsupported provider_type"
    ELSE IF ~model_validate(Head(new_providers))
    THEN "400 Invalid provider data"
    ELSE validation_error(Tail(new_providers))

\* the two clients and the file, as the handlers see them
Server == [px |-> Proxy, ucl |-> utcp_client, file |-> providers_file]

\* UTCPClient.add_provider / remove_provider
utcp_client_add_provider(ucl, provider, fails) ==
    IF fails THEN [ucl |-> ucl, err |-> "ProviderResolutionError"]
    ELSE [ucl |-> <<register_tool_provider(ucl[1], provider.name, Resolve(provider))>>,
          err |-> "none"]

utcp_client_remove_provider(ucl, provider_name, fails) ==
    LET r == deregister_tool_provider(ucl[1], provider_name, fails)
    IN [ucl |-> <<r.repo>>, err |-> r.err]

write_providers_file(file, providers, fails) ==
    IF fails THEN [file |-> file, err |-> "OSError"]
    ELSE [file |-> providers, err |-> "none"]

\* one awaited call of a handler; fails = the collaborator behind it fails
call(S, c, fails) ==
    CASE c.call = "proxy.remove_provider" ->
            LET r == proxy_remove_provider(S.px, c.name, fails)
            IN [S |-> [S EXCEPT !.px = r.px], err |-> r.err]
      [] c.call = "client.remove_provider" ->
            LET r == utcp_client_remove_provider(S.ucl, c.name, fails)
            IN [S |-> [S EXCEPT !.ucl = r.ucl], err |-> r.err]
      [] c.call = "proxy.add_provider" ->
            LET r == proxy_add_provider(S.px, c.provider.name,
                                        IF fails THEN <<>> ELSE <<Resolve(c.provider)>>)
            IN [S |-> [S EXCEPT !.px = r.px], err |-> r.err]
      [] c.call = "client.add_provider" ->
            LET r == utcp_client_add_provider(S.ucl, c.provider, fails)
            IN [S |-> [S EXCEPT !.ucl = r.ucl], err |-> r.err]
      [] c.call = "write_providers_file" ->
            LET r == write_providers_file(S.file, c.providers, fails)
            IN [S |-> [S EXCEPT !.file = r.file], err |-> r.err]

\* the calls of a handler in turn, from the i-th on; the first exception
\* ends the handler; done = the calls that were made, the raising one included
\* (the result r of a call is bound through a singleton set, so that it is
\* computed once)
RECURSIVE run_calls(_, _, _, _)
run_calls(S, calls, i, fail_at) ==
    IF i > Len(calls) THEN [S |-> S, err |-> "none", done |-> calls]
    ELSE Only({IF r.err # "none"
               THEN [S |-> r.S, err |-> r.err, done |-> SubSeq(calls, 1, i)]
               ELSE run_calls(r.S, calls, i + 1, fail_at) :
               r \in {call(S, calls[i], i = fail_at)}})

\* the removal phase without the loop over the client's providers
remove_calls_proxy_only(S) ==
    IF S.px.client # <<>>
    THEN [i \in DOMAIN get_providers(S.px.client[1]) |->
             [call |-> "proxy.remove_provider", name |-> get_providers(S.px.client[1])[i]]]
    ELSE <<>>

remove_calls(S) ==
    (IF S.px.client # <<>>
     THEN [i \in DOMAIN get_providers(S.px.client[1]) |->
              [call |-> "proxy.remove_provider", name |-> get_providers(S.px.client[1])[i]]]
     ELSE <<>>)
    \o
    (IF S.ucl # <<>>
     THEN [i \in DOMAIN get_providers(S.ucl[1]) |->
              [call |-> "client.remove_provider", name |-> get_providers(S.ucl[1])[i]]]
     ELSE <<>>)

add_calls_of(S, provider) ==
    (IF S.px.client # <<>>
     THEN <<[call |-> "proxy.add_provider", provider |-> provider]>> ELSE <<>>)
    \o
    (IF S.ucl # <<>>
     THEN <<[call |-> "client.add_provider", provider |-> provider]>> ELSE <<>>)

RECURSIVE add_calls(_, _)
add_calls(S, validated_providers) ==
    IF validated_providers = <<>> THEN <<>>
    ELSE add_calls_of(S, Head(validated_providers)) \o add_calls(S, Tail(validated_providers))

\* PUT /providers: the awaited calls of the reload, none when the handler
\* returns or raises before it
replace_calls(S, new_providers) ==
    IF read_providers_file(S.file) = new_providers \/ validation_error(new_providers) # "none"
    THEN <<>>
    ELSE remove_calls(S) \o add_calls(S, new_providers)
         \o <<[call |-> "write_providers_file", providers |-> new_providers]>>

\* PUT /providers without the comparison with the current file: every valid
\* list is reloaded
replace_providers_always_reloads(S, new_providers, fail_at) ==
    IF validation_error(new_providers) # "none"
    THEN [S |-> S, err |-> validation_error(new_providers), changed |-> FALSE,
          done |-> <<>>]
    ELSE LET r == run_calls(S, remove_calls(S) \o add_calls(S, new_providers)
                               \o <<[call |-> "write_providers_file",
                                     providers |-> new_providers]>>,
                            1, fail_at)
         IN [S |-> r.S, err |-> r.err, changed |-> r.err = "none", done |-> r.done]

\* PUT /providers; changed is the field of the response, FALSE when the
\* handler raises
replace_providers(S, new_providers, fail_at) ==
    LET current_providers == read_providers_file(S.file)
    IN IF current_providers = new_providers
       THEN [S |-> S, err |-> "none", changed |-> FALSE, done |-> <<>>]
       ELSE IF validation_error(new_providers) # "none"
       THEN [S |-> S, err |-> validation_error(new_providers), changed |-> FALSE,
             done |-> <<>>]
       ELSE LET r == run_calls(S, replace_calls(S, new_providers), 1, fail_at)
            IN [S |-> r.S, err |-> r.err, changed |-> r.err = "none", done |-> r.done]

\* POST /providers
server_add_calls(S, provider) ==
    IF \/ \E i \in DOMAIN S.file : S.file[i].name = provider.name
       \/ validation_error(<<provider>>) # "none"
    THEN <<>>
    ELSE add_calls_of(S, provider)
         \o <<[call |-> "write_providers_file",
               providers |-> Append(read_providers_file(S.file), provider)]>>

server_add_provider(S, provider, fail_at) ==
    LET providers == read_providers_file(S.file)
    IN IF \E i \in DOMAIN providers : providers[i].name = provider.name
       THEN [S |-> S, err |-> "400 Provider with this name already exists", done |-> <<>>]
       ELSE IF validation_error(<<provider>>) # "none"
       THEN [S |-> S, err |-> validation_error(<<provider>>), done |-> <<>>]
       ELSE LET r == run_calls(S, server_add_calls(S, provider), 1, fail_at)
            IN [S |-> r.S, err |-> r.err, done |-> r.done]

\* DELETE /providers/{provider_name}
server_remove_calls(S, provider_name) ==
    LET new_providers == SelectSeq(read_providers_file(S.file),
                                   LAMBDA p : p.name # provider_name)
    IN IF Len(new_providers) = Len(S.file) THEN <<>>
       ELSE (IF S.px.client # <<>>
             THEN <<[call |-> "proxy.remove_provider", name |-> provider_name]>>
             ELSE <<>>)
            \o (IF S.ucl # <<>>
                THEN <<[call |-> "client.remove_provider", name |-> provider_name]>>
                ELSE <<>>)
            \o <<[call |-> "write_providers_file", providers |-> new_providers]>>

server_remove_provider(S, provider_name, fail_at) ==
    LET providers == read_providers_file(S.file)
        new_providers == SelectSeq(providers, LAMBDA p : p.name # provider_name)
    IN IF Len(new_providers) = Len(providers)
       THEN [S |-> S, err |-> "404 Provider not found", done |-> <<>>]
       ELSE LET r == run_calls(S, server_remove_calls(S, provider_name), 1, fail_at)
            IN [S |-> r.S, err |-> r.err, done |-> r.done]

InstallServer(S) ==
    /\ InstallProxy(S.px)
    /\ utcp_client' = S.ucl
    /\ providers_file' = S.file

\* the server starts with any well-formed providers file
InitServer ==
    /\ InitMemory
    /\ providers_file \in InitialFiles

\* server.py lifespan: utcp_client.initialize() and utcp_proxy.initialize(),
\* both clients created from the providers file
Lifespan ==
    /\ app = "starting"
    /\ LET loaded == load_providers(<<>>, read_providers_file(providers_file))
           r == initialize(Proxy, loaded)
       IN /\ InstallProxy(r.px)
          /\ utcp_client' = <<loaded>>
          /\ app' = IF r.err = "none" THEN "running" ELSE "failed"
          /\ last' = [op |-> "lifespan", err |-> r.err]
    /\ UNCHANGED <<repo_vars, providers_file>>

PutProviders ==
    /\ app = "running"
    /\ \E new_providers \in ProviderLists :
       \E fail_at \in 0..Len(replace_calls(Server, new_providers)) :
       \E r \in {replace_providers(Server, new_providers, fail_at)} :
           /\ InstallServer(r.S)
           /\ last' = [op |-> "replace_providers", new_providers |-> new_providers,
                        err |-> r.err, changed |-> r.changed, done |-> r.done]
    /\ UNCHANGED <<app, repo_vars>>

PostProviders ==
    /\ app = "running"
    /\ \E provider \in Descriptors :
       \E fail_at \in 0..Len(server_add_calls(Server, provider)) :
       \E r \in {server_add_provider(Server, provider, fail_at)} :
           /\ InstallServer(r.S)
           /\ last' = [op |-> "add_provider", provider |-> provider,
                        err |-> r.err, done |-> r.done]
    /\ UNCHANGED <<app, repo_vars>>

DeleteProviders ==
    /\ app = "running"
    /\ \E provider_name \in ProviderNames :
       \E fail_at \in 0..Len(server_remove_calls(Server, provider_name)) :
       \E r \in {server_remove_provider(Server, provider_name, fail_at)} :
           /\ InstallServer(r.S)
           /\ last' = [op |-> "delete_provider", provider |-> provider_name,
                        err |-> r.err, done |-> r.done]
    /\ UNCHANGED <<app, repo_vars>>

NextServer == Lifespan \/ PutProviders \/ PostProviders \/ DeleteProviders

SpecServer == InitServer /\ [][NextServer]_vars

\* ------------------------------------------------- concurrent POST requests
\* Two POST /providers handlers as coroutines on the one event loop.  A
\* handler runs without interruption up to an await that suspends: the
\* registration of the provider with the proxy's client (utcp_proxy_mcp.py
\* line 105, reached through server.py line 209) and the registration with
\* the direct client (server.py line 211).  No lock is taken.
\*   PostCalled:       server.py 191-209 and utcp_proxy_mcp.py 101
\*   ProxyRegistered:  utcp_proxy_mcp.py 105-129, server.py 210-211
\*   ClientRegistered: server.py 211-213
PostCalled(t) ==
    /\ app = "running" /\ tasks[t].pc = "idle"
    /\ \E provider \in Descriptors :
        LET providers == read_providers_file(providers_file)
            c == [op |-> "post", provider |-> provider]
        IN tasks' = [tasks EXCEPT ![t] =
            IF \E i \in DOMAIN providers : providers[i].name = provider.name
            THEN [pc |-> "done", call |-> c, registered |-> <<>>,
                  err |-> "400 Provider with this name already exists"]
            ELSE IF validation_error(<<provider>>) # "none"
            THEN [pc |-> "done", call |-> c, registered |-> <<>>,
                  err |-> validation_error(<<provider>>)]
            ELSE [pc |-> "register_proxy", call |-> c, providers |-> providers,
                  old_tools |-> Names(proxy_tools)]]
    /\ UNCHANGED <<proxy_vars, server_vars, tools, tool_per_provider,
                   tool_embeddings, all_tags, last, before>>

ProxyRegistered(t) ==
    /\ tasks[t].pc = "register_proxy"
    /\ \E fails \in BOOLEAN :
       \E r \in {proxy_add_provider_resumed(Proxy, tasks[t].old_tools,
                       tasks[t].call.provider.name,
                       IF fails THEN <<>> ELSE <<Resolve(tasks[t].call.provider)>>)} :
        /\ InstallProxy(r.px)
        /\ tasks' = [tasks EXCEPT ![t] =
             IF r.err # "none"
             THEN [pc |-> "done", call |-> tasks[t].call, registered |-> <<>>,
                   err |-> r.err]
             ELSE [pc |-> "register_client", call |-> tasks[t].call,
                   providers |-> tasks[t].providers, registered |-> r.registered]]
    /\ UNCHANGED <<app, server_vars, tools, tool_per_provider,
                   tool_embeddings, all_tags, last, before>>

ClientRegistered(t) ==
    /\ tasks[t].pc = "register_client"
    /\ \E fail_at \in 0..2 :
       \E r \in {run_calls(Server,
                     <<[call |-> "client.add_provider", provider |-> tasks[t].call.provider],
                       [call |-> "write_providers_file",
                        providers |-> Append(tasks[t].providers, tasks[t].call.provider)]>>,
                     1, fail_at)} :
        /\ InstallServer(r.S)
        /\ tasks' = [tasks EXCEPT ![t] =
             [pc |-> "done", call |-> tasks[t].call,
              registered |-> tasks[t].registered, err |-> r.err]]
    /\ UNCHANGED <<app, tools, tool_per_provider,
                   tool_embeddings, all_tags, last, before>>

NextPosts ==
    \/ Lifespan
    \/ \E t \in TaskIds : PostCalled(t) \/ ProxyRegistered(t) \/ ClientRegistered(t)

SpecPosts == InitServer /\ [][NextPosts]_vars

\* ------------------------------------------- the lazily initialized client
\* simple-utcp-client-mcp.py: the global utcp_client is None (<<>>) until
\* initialize_utcp_client has created a client.  Every tool handler starts
\* with `client = await initialize_utcp_client()`.  Run as a script, main()
\* awaits initialize_utcp_client before mcp.run_async serves any handler
\* (app goes "starting", "creating", "running"); imported by a host that
\* serves the module's `mcp` object, main() does not run and the first
\* handlers find the global unset (app = "hosted").  A client is told from
\* another by the call that created it; each has an EmbeddingInMemRepo of
\* its own (line 513).  UtcpClient.create suspends the caller and may raise.
Handlers ==
    {"register_tool_provider", "deregister_tool_provider", "call_tool",
     "search_tools", "load_providers_from_file",
     "get_required_variables_for_tool", "tool_info"}

\* initialize_utcp_client lines 499-511, up to the await of line 515
initialize_utcp_client(global, c, creator) ==
    IF global # <<>>
    THEN [pc |-> "done", call |-> c, err |-> "none", client |-> global,
          created |-> FALSE]
    ELSE [pc |-> "create", call |-> c, creator |-> creator]

\* lines 515-521: the created client is stored in the global and returned
UtcpClient_create(creator, fails) ==
    IF fails THEN <<>> ELSE <<[created_by |-> creator, tool_repository |-> EmptyRepo]>>

\* the module imported by a host: lines 47 and 495 have run, main() has not
Imported ==
    /\ app = "starting"
    /\ app' = "hosted"
    /\ last' = [op |-> "import"]
    /\ UNCHANGED <<client, proxy_tools, proxy_providers, mcp_tools, repo_vars, server_vars>>

Main ==
    /\ app = "starting"
    /\ app' = "creating"
    /\ last' = [op |-> "main"]
    /\ UNCHANGED <<client, proxy_tools, proxy_providers, mcp_tools, repo_vars, server_vars>>

MainCreated ==
    /\ app = "creating"
    /\ \E fails \in BOOLEAN :
        /\ utcp_client' = (IF fails THEN utcp_client
                           ELSE UtcpClient_create("main", fails))
        /\ app' = IF fails THEN "failed" ELSE "running"
        /\ last' = [op |-> "main_created",
                     err |-> IF fails THEN "CreateError" ELSE "none"]
    /\ UNCHANGED <<client, proxy_tools, proxy_providers, mcp_tools, repo_vars,
                   providers_file>>

HandlerCalled(t) ==
    /\ app \in {"running", "hosted"} /\ tasks[t].pc = "idle"
    /\ \E h \in Handlers :
        tasks' = [tasks EXCEPT ![t] =
            initialize_utcp_client(utcp_client, [op |-> "handler", tool |-> h], t)]
    /\ UNCHANGED <<proxy_vars, server_vars, tools, tool_per_provider,
                   tool_embeddings, all_tags, last, before>>

ClientCreated(t) ==
    /\ tasks[t].pc = "create"
    /\ \E fails \in BOOLEAN :
       \E made \in {UtcpClient_create(tasks[t].creator, fails)} :
        /\ utcp_client' = (IF fails THEN utcp_client ELSE made)
        /\ tasks' = [tasks EXCEPT ![t] =
             [pc |-> "done", call |-> tasks[t].call,
              err |-> IF fails THEN "CreateError" ELSE "none",
              client |-> made, created |-> ~fails]]
    /\ UNCHANGED <<proxy_vars, providers_file, tools, tool_per_provider,
                   tool_embeddings, all_tags, last, before>>

NextLazy ==
    \/ Imported
    \/ Main
    \/ MainCreated
    \/ \E t \in TaskIds : HandlerCalled(t) \/ ClientCreated(t)

SpecLazy == Init /\ [][NextLazy]_vars

\* ------------------------------------------------------------------- search
\* Embedding vectors are integer pairs; cosine similarity only looks at
\* their direction, so <<1, 1>> stands for any positive multiple of it.
\* The embedding model is a function of the text: the vector it returns for
\* the text of a tool, by local name and tag.  <<0, 0>> is a zero-norm vector.
vector_of(text) ==
    LET l == text[1][Len(text[1])]
    IN IF l = LocalList[1]
       THEN (IF "t1" \in text[2] THEN <<1, 0>> ELSE <<0, 1>>)
       ELSE (IF "t1" \in text[2] THEN <<1, 1>> ELSE <<0, 0>>)

QueryVectors == {<<1, 0>>, <<0, 1>>, <<1, 1>>, <<0, 0>>}

\* A score is a float: NaN, or the rational num / den with den > 0.  A
\* cosine similarity dot / sqrt(n1 * n2) is kept as its signed square
\* dot * |dot| / (n1 * n2), which orders the same way.
NaN == [nan |-> TRUE, num |-> 0, den |-> 1]
Ratio(n, d) == [nan |-> FALSE, num |-> n, den |-> d]
abs(n) == IF n < 0 THEN -n ELSE n

\* float comparison: every comparison with NaN is false
lt(a, b) == ~a.nan /\ ~b.nan /\ a.num * b.den < b.num * a.den
ge(a, b) == ~a.nan /\ ~b.nan /\ a.num * b.den >= b.num * a.den
eq(a, b) == ~a.nan /\ ~b.nan /\ a.num * b.den = b.num * a.den

dot(v1, v2) == v1[1] * v2[1] + v1[2] * v2[2]

\* _cosine_similarity: numpy divides 0.0 by 0.0 into nan (with a warning,
\* without an exception)
cosine_similarity(v1, v2) ==
    LET dot_product == dot(v1, v2)
        norms == dot(v1, v1) * dot(v2, v2)
    IN IF norms = 0 THEN NaN ELSE Ratio(dot_product * abs(dot_product), norms)

li_reverse(s) == [i \in 1..Len(s) |-> s[Len(s) + 1 - i]]

\* list.sort of a list shorter than 64: the leading run is found and, when
\* strictly descending, reversed; the remaining items are inserted by binary
\* search.  Items are compared by their score with < only.
RECURSIVE run_end(_, _, _)
run_end(s, i, descending) ==
    IF i = Len(s) THEN i
    ELSE IF lt(s[i + 1].score, s[i].score) = descending
    THEN run_end(s, i + 1, descending)
    ELSE i

count_run(s) ==
    IF Len(s) < 2 THEN [n |-> Len(s), descending |-> FALSE]
    ELSE LET descending == lt(s[2].score, s[1].score)
         IN [n |-> run_end(s, 2, descending), descending |-> descending]

\* the position of pivot among s[l..r-1]
RECURSIVE bisect(_, _, _, _)
bisect(s, pivot, l, r) ==
    IF l >= r THEN l
    ELSE LET p == l + ((r - l) \div 2)
         IN IF lt(pivot.score, s[p].score)
            THEN bisect(s, pivot, l, p)
            ELSE bisect(s, pivot, p + 1, r)

RECURSIVE binarysort(_, _)
binarysort(s, start) ==
    IF start > Len(s) THEN s
    ELSE LET pivot == s[start]
             pos == bisect(s, pivot, 1, start)
         IN binarysort(SubSeq(s, 1, pos - 1) \o <<pivot>> \o SubSeq(s, pos, start - 1)
                       \o SubSeq(s, start + 1, Len(s)),
                       start + 1)

list_sort(s) ==
    LET run == count_run(s)
        s1 == IF run.descending
              THEN li_reverse(SubSeq(s, 1, run.n)) \o SubSeq(s, run.n + 1, Len(s))
              ELSE s
    IN binarysort(s1, run.n + 1)

\* results.sort(key=lambda x: x[1], reverse=True): reversed, sorted, reversed
sort_reverse(results) == li_reverse(list_sort(li_reverse(results)))

\* results[:top_k]
slice_to(results, top_k) ==
    IF top_k >= 0
    THEN SubSeq(results, 1, IF top_k < Len(results) THEN top_k ELSE Len(results))
    ELSE SubSeq(results, 1, IF Len(results) + top_k > 0 THEN Len(results) + top_k ELSE 0)

search_by_embedding(repo, query_embedding, top_k) ==
    LET indexed == SelectSeq(repo.tools, LAMBDA t : t.name \in DOMAIN repo.tool_embeddings)
        results == [i \in DOMAIN indexed |->
                       [tool |-> indexed[i],
                        score |-> cosine_similarity(query_embedding,
                                     vector_of(repo.tool_embeddings[indexed[i].name]))]]
    IN slice_to(sort_reverse(results), top_k)

\* a tag is a string, like a name: the sequence of its dot-free segments
tag_string(t) == <<t>>

\* tool_tags of search_by_tags: the tags, the name, and the first two
\* '.'-separated pieces of the name
tool_tags_of(tool) ==
    {tag_string(t) : t \in tool.tags}
    \cup {tool.name, <<tool.name[1]>>, <<tool.name[2]>>}

tag_score(tool, tags) ==
    LET matching_tags == Range(tags) \cap tool_tags_of(tool)
        m == Cardinality(matching_tags)
        n == Cardinality(tool_tags_of(tool)) + 1
    \* (m / len(tags) + m / n) / 2
    IN Ratio(m * (n + Len(tags)), 2 * Len(tags) * n)

\* search_by_tags without the test for a non-empty intersection
search_by_tags_unfiltered(repo, tags, top_k) ==
    LET results == [i \in DOMAIN repo.tools |->
                       [tool |-> repo.tools[i],
                        score |-> IF tags = <<>> THEN Ratio(0, 1)
                                  ELSE tag_score(repo.tools[i], tags)]]
    IN slice_to(sort_reverse(results), top_k)

\* search_by_tags without the truncation to top_k
search_by_tags_untruncated(repo, tags, top_k) ==
    LET matching == SelectSeq(repo.tools,
                              LAMBDA t : Range(tags) \cap tool_tags_of(t) # {})
        results == [i \in DOMAIN matching |->
                       [tool |-> matching[i], score |-> tag_score(matching[i], tags)]]
    IN sort_reverse(results)

search_by_tags(repo, tags, top_k) ==
    LET matching == SelectSeq(repo.tools,
                              LAMBDA t : Range(tags) \cap tool_tags_of(t) # {})
        results == [i \in DOMAIN matching |->
                       [tool |-> matching[i], score |-> tag_score(matching[i], tags)]]
    IN slice_to(sort_reverse(results), top_k)

\* ------------------------------------------------------------- ToolSelector
\* A query is its text, as the sequence of its words, and the vector the
\* embedding model returns for it.  str.lower is given by what it does to
\* each word of the universe.
lower(w) == IF w = "X" THEN "x" ELSE w
QueryTexts == {<<"x">>, <<"X", "t1">>, <<"t2", "a", "x">>, <<"zz">>}
Queries == {[text |-> t, vector |-> v] : t \in QueryTexts, v \in QueryVectors}

RECURSIVE dedup(_)
dedup(s) ==
    IF s = <<>> THEN <<>>
    ELSE LET d == dedup(SubSeq(s, 1, Len(s) - 1))
         IN IF s[Len(s)] \in Range(d) THEN d ELSE Append(d, s[Len(s)])

\* set(re.findall(r'\w+', query.lower())), in the order of first occurrence
findall_words(query) == dedup([i \in DOMAIN query.text |-> tag_string(lower(query.text[i]))])

\* TagSearchStrategy(repo).search_tools(query, limit): the tag search over
\* the words of the query; limit 0 means no limit
tag_search_tools(repo, query, limit) ==
    LET ranked == search_by_tags(repo, findall_words(query), Len(repo.tools))
        tls == [i \in DOMAIN ranked |-> ranked[i].tool]
    IN IF limit > 0 THEN slice_to(tls, limit) ELSE tls

\* "First, add all tag-based tools"
RECURSIVE add_tag_tools(_, _)
add_tag_tools(selected_tools, tag_tools) ==
    IF tag_tools = <<>> THEN selected_tools
    ELSE add_tag_tools(IF Head(tag_tools).name \in Names(selected_tools)
                       THEN selected_tools
                       ELSE Append(selected_tools, Head(tag_tools)),
                       Tail(tag_tools))

\* "Then, add top embedding tools that aren't already selected"
RECURSIVE add_embedding_tools(_, _, _)
add_embedding_tools(selected_tools, embedding_results, limit) ==
    IF embedding_results = <<>> THEN selected_tools
    ELSE IF Len(selected_tools) >= limit THEN selected_tools
    ELSE add_embedding_tools(IF Head(embedding_results).tool.name \in Names(selected_tools)
                             THEN selected_tools
                             ELSE Append(selected_tools, Head(embedding_results).tool),
                             Tail(embedding_results), limit)

search_tools_embedding_first(repo, query, limit) ==
    LET query_embedding == query.vector
        tag_tools == tag_search_tools(repo, query, IF limit > 0 THEN limit \div 2 ELSE 5)
        embedding_results == search_by_embedding(repo, query_embedding,
                                                 IF limit > 0 THEN limit ELSE 10)
    IN add_tag_tools(add_embedding_tools(<<>>, embedding_results, limit), tag_tools)

\* ToolSelector.search_tools
search_tools(repo, query, limit) ==
    LET query_embedding == query.vector
        tag_tools == tag_search_tools(repo, query, IF limit > 0 THEN limit \div 2 ELSE 5)
        embedding_results == search_by_embedding(repo, query_embedding,
                                                 IF limit > 0 THEN limit ELSE 10)
    IN add_embedding_tools(add_tag_tools(<<>>, tag_tools), embedding_results, limit)

\* The catalogs searched: provider "a" saved with any tools, then provider
\* "a.b" with at most one tool, the batch embedding leaving out up to
\* MaxFail tools of "a".
SearchCatalogs ==
    {save_provider_with_tools(
         save_provider_with_tools(EmptyRepo, <<"a">>, ta, ea),
         <<"a", "b">>, tb, [batch |-> TRUE, fail |-> {}]) :
        ta \in ToolLists(<<"a">>),
        ea \in {e \in UNION {EmbedOutcomes(t) : t \in ToolLists(<<"a">>)} : e.batch},
        tb \in {t \in ToolLists(<<"a", "b">>) : Len(t) <= 1}}

\* the arguments of the searches
QueryTagLists ==
    {<<>>, <<tag_string("t1")>>, <<tag_string("x")>>, <<tag_string("a")>>,
     <<tag_string("b")>>, << <<"a", "x">> >>, <<tag_string("t1"), tag_string("x")>>,
     <<tag_string("x"), tag_string("x")>>, <<tag_string("zz")>>,
     <<tag_string("t2"), tag_string("zz")>>}
TopKs == {0, 1, 2, 5}
Limits == {0, 1, 2, 3}

InitSearch ==
    /\ \E repo \in SearchCatalogs :
        /\ tools = repo.tools
        /\ tool_per_provider = repo.tool_per_provider
        /\ tool_embeddings = repo.tool_embeddings
        /\ all_tags = repo.all_tags
    /\ last = [op |-> "init"]
    /\ before = EmptyRepo
    /\ app = "starting"
    /\ client = <<>>
    /\ proxy_tools = <<>>
    /\ proxy_providers = <<>>
    /\ mcp_tools = <<>>
    /\ utcp_client = <<>>
    /\ providers_file = <<>>
    /\ tasks = IdleTasks

SearchByTags ==
    /\ \E tags \in QueryTagLists : \E top_k \in TopKs :
        last' = [op |-> "search_by_tags", tags |-> tags, top_k |-> top_k,
                 result |-> search_by_tags(Repo, tags, top_k)]
    /\ UNCHANGED <<repo_vars, proxy_vars, server_vars>>

SearchByEmbedding ==
    /\ \E query_embedding \in QueryVectors : \E top_k \in TopKs :
        last' = [op |-> "search_by_embedding", query_embedding |-> query_embedding,
                 top_k |-> top_k,
                 result |-> search_by_embedding(Repo, query_embedding, top_k)]
    /\ UNCHANGED <<repo_vars, proxy_vars, server_vars>>

SearchTools ==
    /\ \E query \in Queries : \E limit \in Limits :
        last' = [op |-> "search_tools", query |-> query, limit |-> limit,
                 result |-> search_tools(Repo, query, limit)]
    /\ UNCHANGED <<repo_vars, proxy_vars, server_vars>>

NextSearch == SearchByTags \/ SearchByEmbedding \/ SearchTools

SpecSearch == InitSearch /\ [][NextSearch]_vars

\* ------------------------------------------------------------------ claims
Providers == DOMAIN tool_per_provider
Owners(n) == {p \in Providers : n \in Names(tool_per_provider[p])}
NoDuplicates(s) == \A i, j \in DOMAIN s : i # j => s[i].name # s[j].name

\* C1: after every save_provider_with_tools / remove_provider the flat tool
\* sequence holds exactly the tools of the remaining providers' tool lists,
\* each once: no orphan, no duplicate.
C1_FlatIsUnionOfProviders ==
    /\ Range(tools) = UNION {Range(tool_per_provider[p]) : p \in Providers}
    /\ NoDuplicates(tools)
    /\ \A n \in Names(tools) : Cardinality(Owners(n)) = 1

\* a provider was registered again while another provider is registered
C1_Witness ==
    /\ last.op = "save" /\ ~last.fresh /\ last.tools # <<>>
    /\ Cardinality(Providers) = 2
    /\ Len(tools) >= 3

\* C2: after every mutating operation the tag cache get_all_tags returns is
\* the union of the tags of the tools in the flat sequence, also when an
\* embedding failed during the save.
C2_TagCacheIsUnion == get_all_tags(Repo) = TagUnion(tools)

\* C3: every key of the embedding map is the name of a tool in the flat
\* sequence.
C3_EmbeddingKeysAreTools == DOMAIN tool_embeddings \subseteq Names(tools)

\* a provider was removed and embeddings of another provider's tools remain
C3_Witness ==
    /\ last.op = "remove_provider" /\ last.err = "none"
    /\ DOMAIN tool_embeddings # {}

\* C4: saving the same provider with the same tools (and the same embedding
\* outcome) a second time leaves the flat sequence, the provider mapping,
\* the embedding keys and the tag cache as the first save left them.
C4_ResaveIsIdempotent ==
    [][(/\ last.op = "save" /\ last'.op = "save"
        /\ last'.provider = last.provider
        /\ last'.tools = last.tools
        /\ last'.embed = last.embed)
       => (/\ tools' = tools
           /\ tool_per_provider' = tool_per_provider
           /\ DOMAIN tool_embeddings' = DOMAIN tool_embeddings
           /\ all_tags' = all_tags)]_vars

\* C5: remove_provider of a name that is not registered raises ValueError
\* and changes nothing; the second of two remove_provider calls of one name
\* raises ValueError.
C5_RemoveUnknownFails ==
    [][/\ (last'.op = "remove_provider" /\ last'.provider \notin Providers)
           => (/\ last'.err = "ValueError"
               /\ UNCHANGED <<tools, tool_per_provider, tool_embeddings, all_tags>>)
       /\ (/\ last.op = "remove_provider" /\ last'.op = "remove_provider"
           /\ last'.provider = last.provider)
           => last'.err = "ValueError"]_vars

\* remove_provider failed on a repository that holds tools
C5_Witness ==
    /\ last.op = "remove_provider" /\ last.err = "ValueError"
    /\ tools # <<>>

\* C6: saving a provider name that was absent and removing it right after
\* brings back the flat sequence, the provider mapping and the embedding map
\* of before the save: the saved tools are gone, the name has no entry, and
\* the tag cache is the union of the remaining tools' tags.
C6_SaveThenRemoveRestores ==
    (last.op = "remove_provider" /\ last.undoes)
    => (/\ last.err = "none"
        /\ tools = before.tools
        /\ tool_per_provider = before.tool_per_provider
        /\ tool_embeddings = before.tool_embeddings
        /\ last.provider \notin Providers
        /\ \A t \in Range(tools) : SubSeq(t.name, 1, Len(t.name) - 1) # last.provider
        /\ all_tags = TagUnion(tools))

\* the save was undone in a repository that holds another provider's tools
C6_Witness ==
    /\ last.op = "remove_provider" /\ last.undoes
    /\ tools # <<>> /\ tool_embeddings # <<>>

\* the save was undone in a repository that was empty before it
C6_WitnessEmpty ==
    /\ last.op = "remove_provider" /\ last.undoes
    /\ before = EmptyRepo

\* C7: remove_tool of a tool that is in the flat sequence removes that one
\* tool from the flat sequence, from its provider's list and from the
\* embedding map; afterwards a name is in the flat sequence iff exactly one
\* provider lists it.
C7_RemoveToolRemovesFromOwner ==
    [][(last'.op = "remove_tool" /\ last'.tool \in Names(tools))
       => (/\ last'.err = "none"
           /\ tools' = SelectSeq(tools, LAMBDA t : t.name # last'.tool)
           /\ last'.tool \notin DOMAIN tool_embeddings'
           /\ \A n \in ToolNames :
                 n \in Names(tools') <=>
                 Cardinality({p \in DOMAIN tool_per_provider' :
                                n \in Names(tool_per_provider'[p])}) = 1)]_vars


\* the proxied repository and what it holds
ClientRepo == client[1]
CatalogNames == Names(get_tools(ClientRepo))
OwnedBy(repo, p) == UNION {Names(repo[i].tools) : i \in {j \in DOMAIN repo : repo[j].name = p}}

\* C8: every callable registered with the MCP runtime names a tool that is
\* in the proxied catalog.
C8_ProxiesNameCatalogTools ==
    app = "running" => DOMAIN mcp_tools \subseteq CatalogNames

\* C9: after every proxy add_provider / remove_provider, finished or failed,
\* every tool in the catalog has a callable registered under its name.
C9_CatalogToolsHaveProxies ==
    last.op \in {"proxy_add_provider", "proxy_remove_provider"}
    => CatalogNames \subseteq DOMAIN mcp_tools

\* C10: a successful proxy remove_provider(p) unregisters the proxies of
\* exactly the tools p owns and removes exactly those tools from the
\* catalog; every other provider's tools and proxies stay as they were.
C10_RemoveIsProviderScoped ==
    [][(last'.op = "proxy_remove_provider" /\ last'.err = "none")
       => LET owned == OwnedBy(ClientRepo, last'.provider)
          IN /\ DOMAIN mcp_tools' = DOMAIN mcp_tools \ owned
             /\ Names(get_tools(client'[1])) = CatalogNames \ owned
             /\ \A n \in DOMAIN mcp_tools' : mcp_tools'[n] = mcp_tools[n]
             /\ \A q \in ProviderNames \ {last'.provider} :
                   OwnedBy(client'[1], q) = OwnedBy(ClientRepo, q)]_vars

\* the provider stores the HTTP handlers keep together
ServerStores ==
    <<client, proxy_tools, proxy_providers, mcp_tools, utcp_client, providers_file>>
IsValid(d) == d.provider_type \in provider_classes /\ model_validate(d)
NamesOf(providers) == {providers[i].name : i \in DOMAIN providers}
Registered(repo) == Range(get_providers(repo))
\* an exception raised by the transport or by the file system
IsFault(err) == err \in {"TransportError", "ProviderResolutionError", "OSError"}
Count(seq, x) == Cardinality({i \in DOMAIN seq : seq[i] = x})
SetEqual(l1, l2) ==
    /\ Len(l1) = Len(l2)
    /\ \A x \in Range(l1) \cup Range(l2) : Count(l1, x) = Count(l2, x)

\* C11: a PUT /providers that returned normally, followed by a PUT of the
\* identical list: the second reports changed = false, makes no add or
\* remove call on either client, registers and unregisters nothing with the
\* runtime and does not write the file.
C11_SecondReplaceIsNoOp ==
    [][(/\ last.op = "replace_providers" /\ last.err = "none"
        /\ last'.op = "replace_providers"
        /\ last'.new_providers = last.new_providers)
       => (/\ last'.err = "none"
           /\ last'.changed = FALSE
           /\ last'.done = <<>>
           /\ UNCHANGED ServerStores)]_vars

\* a list of two providers was put again and reported unchanged while both
\* catalogs hold its providers
C11_Witness ==
    /\ last.op = "replace_providers" /\ last.err = "none" /\ ~last.changed
    /\ Len(last.new_providers) = 2
    /\ providers_file = last.new_providers
    /\ Registered(client[1]) = NamesOf(last.new_providers)
    /\ Registered(utcp_client[1]) = NamesOf(last.new_providers)

C13_SetEqualListIsSkipped ==
    [][(/\ last'.op = "replace_providers"
        /\ SetEqual(last'.new_providers, providers_file))
       => (/\ last'.err = "none"
           /\ last'.changed = FALSE
           /\ last'.done = <<>>
           /\ UNCHANGED ServerStores)]_vars

\* C14: a PUT /providers of a valid list that differs from the persisted
\* one, no collaborator failing: the calls are the removal of every provider
\* registered with the proxy and with the client, then the additions in list
\* order (proxy, then client, per descriptor), then the write; the response
\* says changed = true; afterwards each catalog's provider names are the
\* names of the list and the file holds the list.
C14_ReplaceReloadsInOrder ==
    [][(/\ last'.op = "replace_providers"
        /\ \A i \in DOMAIN last'.new_providers : IsValid(last'.new_providers[i])
        /\ last'.new_providers # providers_file
        /\ ~IsFault(last'.err))
       => LET new == last'.new_providers
              done == last'.done
              np == Len(get_providers(client[1]))
              nc == Len(get_providers(utcp_client[1]))
          IN /\ last'.err = "none"
             /\ last'.changed = TRUE
             /\ Len(done) = np + nc + 2 * Len(new) + 1
             /\ \A i \in 1..np :
                   done[i] = [call |-> "proxy.remove_provider",
                              name |-> get_providers(client[1])[i]]
             /\ \A i \in 1..nc :
                   done[np + i] = [call |-> "client.remove_provider",
                                   name |-> get_providers(utcp_client[1])[i]]
             /\ \A i \in DOMAIN new :
                   /\ done[np + nc + 2 * i - 1] = [call |-> "proxy.add_provider",
                                                   provider |-> new[i]]
                   /\ done[np + nc + 2 * i] = [call |-> "client.add_provider",
                                               provider |-> new[i]]
             /\ done[Len(done)].call = "write_providers_file"
             /\ Registered(client'[1]) = NamesOf(new)
             /\ Registered(utcp_client'[1]) = NamesOf(new)
             /\ providers_file' = new]_vars

\* two registered providers were replaced by a list of two
C14_Witness ==
    /\ last.op = "replace_providers" /\ last.err = "none" /\ last.changed
    /\ Len(last.new_providers) = 2
    /\ Cardinality(NamesOf(last.new_providers)) = 2
    /\ Len(last.done) = 9

\* C15: a PUT /providers that failed in its remove/add phase, followed by a
\* PUT of the last known-good list (the list the file still holds) on which
\* no collaborator fails: afterwards both catalogs, the proxy's cached lists
\* and the runtime registry hold exactly the providers and tools of that list.
C15_ReplayOfGoodListRecovers ==
    [][(/\ last.op = "replace_providers" /\ IsFault(last.err)
        /\ last.done[Len(last.done)].call # "write_providers_file"
        /\ last'.op = "replace_providers"
        /\ last'.new_providers = providers_file
        /\ ~IsFault(last'.err))
       => LET good == load_providers(<<>>, last'.new_providers)
          IN /\ last'.err = "none"
             /\ Registered(client'[1]) = Registered(good)
             /\ Names(get_tools(client'[1])) = Names(get_tools(good))
             /\ Registered(utcp_client'[1]) = Registered(good)
             /\ Names(get_tools(utcp_client'[1])) = Names(get_tools(good))
             /\ Names(proxy_tools') = Names(get_tools(good))
             /\ DOMAIN mcp_tools' = Names(get_tools(good))]_vars
\* C20: an embedding failure is not fatal: save_provider_with_tools returns
\* without raising, every tool of the provider is in the flat sequence and
\* in the provider's list, and of the provider's tools exactly those whose
\* embedding failed have no entry in the embedding map.
C20_EmbeddingFailureIsNotFatal ==
    last.op = "save"
    => (/\ last.err = "none"
        /\ Range(last.tools) \subseteq Range(tools)
        /\ last.provider \in DOMAIN tool_per_provider
        /\ tool_per_provider[last.provider] = last.tools
        /\ \A n \in Names(last.tools) :
              n \notin DOMAIN tool_embeddings <=> n \in last.embed.fail)

\* the batch raised, and in the per-tool fallback the first of two tools
\* failed while the second was embedded
C20_Witness ==
    /\ last.op = "save" /\ ~last.embed.batch
    /\ Len(last.tools) = 2
    /\ last.embed.fail = {last.tools[1].name}
    /\ last.tools[2].name \in DOMAIN tool_embeddings

\* what the searches are judged by
EffectiveTags(tool) ==
    {<<t>> : t \in tool.tags} \cup {tool.name} \cup {<<tool.name[i]>> : i \in {1, 2}}
Matches(tool, tags) == EffectiveTags(tool) \cap Range(tags) # {}
CatalogIndex(tool) == CHOOSE i \in DOMAIN tools : tools[i] = tool

\* C16: the hybrid search never returns two tools with the same name, and
\* for every limit > 0, limit = 1 included, it returns at most limit tools.
C16_HybridIsDistinctAndBounded ==
    last.op = "search_tools"
    => (/\ NoDuplicates(last.result)
        /\ last.limit > 0 => Len(last.result) <= last.limit)

C19_EmbeddingResultsRanked ==
    last.op = "search_by_embedding"
    => LET r == last.result
       IN /\ \A i \in DOMAIN r : r[i].tool.name \in DOMAIN tool_embeddings
          /\ \A i, j \in DOMAIN r : i < j =>
                /\ ge(r[i].score, r[j].score)
                /\ eq(r[i].score, r[j].score)
                      => CatalogIndex(r[i].tool) < CatalogIndex(r[j].tool)
          /\ Len(r) <= last.top_k
          /\ last.top_k = 0 => r = <<>>

\* ---- Claims C23..C30 ---------------------------------------------------

\* C23: the persisted provider list never holds two descriptors with the same
\* name: after any sequence of POST /providers, DELETE /providers/{name} and
\* PUT /providers the names in providers_file are pairwise distinct.
C23_PersistedNamesDistinct ==
    \A i, j \in DOMAIN providers_file :
        i # j => providers_file[i].name # providers_file[j].name

C25_BindingFollowsSchema ==
    [][(last'.op = "proxy_add_provider" /\ last'.err = "none")
        => LET old == get_tools(client[1])
               new == get_tools(client'[1])
           IN \A i \in DOMAIN old : \A j \in DOMAIN new :
                (/\ old[i].name = new[j].name
                 /\ startswith_prefix(new[j].name, last'.provider)
                 /\ old[i].inputs # new[j].inputs
                 /\ old[i].name \in DOMAIN mcp_tools
                 /\ create_tool_proxy(new[j]).ok)
                => /\ new[j].name \in DOMAIN mcp_tools'
                   /\ mcp_tools'[new[j].name] = create_tool_proxy(new[j])]_vars

\* C26: when the client fails to resolve the provider during proxy
\* add_provider, the failure reaches the caller and nothing changes: the
\* catalog, the proxy's cached tool and provider lists and the runtime
\* registry are as before, and a provider that was absent stays absent.
C26_FailedAddChangesNothing ==
    [][(last'.op = "proxy_add_provider" /\ last'.resolution_failed)
        => /\ last'.err = "ProviderResolutionError"
           /\ UNCHANGED <<client, proxy_tools, proxy_providers, mcp_tools>>
           /\ last'.provider \notin Registered(client[1])
                => last'.provider \notin Registered(client'[1])]_vars

C26_Witness ==
    /\ last.op = "proxy_add_provider" /\ last.resolution_failed
    /\ last.err = "ProviderResolutionError"
    /\ last.provider \notin Registered(ClientRepo)
    /\ proxy_providers # <<>> /\ mcp_tools # <<>>

\* C27: proxy remove_provider for a provider that is not registered fails
\* with the catalog's not-found error, which reaches the caller.
C27_RemoveUnknownProviderFails ==
    [][(last'.op = "proxy_remove_provider"
        /\ last'.provider \notin Registered(client[1]))
        => last'.err = "ValueError"]_vars

C27_Witness ==
    /\ last.op = "proxy_remove_provider" /\ last.err = "ValueError"
    /\ last.provider \notin Registered(ClientRepo)
    /\ proxy_providers # <<>>

\* C28: registering and unregistering callables is best-effort per tool.  An
\* add_provider whose provider resolves returns normally with the provider in
\* the catalog, and every new tool a proxy can be generated for is registered
\* even when an earlier tool of the provider failed; a remove_provider of a
\* registered provider whose deregistration does not fail returns normally
\* with the provider gone, and every tool selected for removal is out of the
\* registry even when unregistering one of them failed.
C28_RuntimeStepsAreBestEffort ==
    [][/\ (last'.op = "proxy_add_provider" /\ ~last'.resolution_failed)
            => /\ last'.err = "none"
               /\ last'.provider \in Registered(client'[1])
               /\ \A i \in DOMAIN proxy_tools' :
                    LET tool == proxy_tools'[i]
                    IN (tool.name \notin Names(proxy_tools) /\ create_tool_proxy(tool).ok)
                        => /\ tool.name \in Range(last'.registered)
                           /\ tool.name \in DOMAIN mcp_tools'
                           /\ mcp_tools'[tool.name] = create_tool_proxy(tool)
       /\ (last'.op = "proxy_remove_provider"
           /\ last'.provider \in Registered(client[1])
           /\ last'.err # "TransportError")
            => /\ last'.err = "none"
               /\ last'.provider \notin Registered(client'[1])
               /\ \A n \in Range(last'.tools_to_remove) : n \notin DOMAIN mcp_tools'
               /\ \A n \in DOMAIN mcp_tools :
                    n \notin Range(last'.tools_to_remove)
                        => n \in DOMAIN mcp_tools' /\ mcp_tools'[n] = mcp_tools[n]]_vars

\* a tool of the provider could not be registered and a later one was
C28_Witness ==
    /\ last.op = "proxy_add_provider" /\ last.err = "none"
    /\ \E i, j \in DOMAIN proxy_tools :
        /\ i < j
        /\ startswith_prefix(proxy_tools[i].name, last.provider)
        /\ ~create_tool_proxy(proxy_tools[i]).ok
        /\ proxy_tools[i].name \notin DOMAIN mcp_tools
        /\ proxy_tools[j].name \in Range(last.registered)

\* unregistering one tool failed and the provider was removed all the same
C28_WitnessRemove ==
    /\ last.op = "proxy_remove_provider" /\ last.err = "none"
    /\ last.failed # <<>>
    /\ Len(last.tools_to_remove) > Len(last.failed)

\* the tag-search and embedding-search results the hybrid search of `last`
\* fuses, and the embedding results whose name no tag result has
HybridTagTools ==
    tag_search_tools(Repo, last.query, IF last.limit > 0 THEN last.limit \div 2 ELSE 5)
HybridEmbeddingTools ==
    LET er == search_by_embedding(Repo, last.query.vector,
                                  IF last.limit > 0 THEN last.limit ELSE 10)
    IN [i \in DOMAIN er |-> er[i].tool]
HybridEmbeddingOnly ==
    SelectSeq(HybridEmbeddingTools, LAMBDA t : t.name \notin Names(HybridTagTools))
Min(a, b) == IF a < b THEN a ELSE b

\* C29: the result of search_tools is all tag-search results in their ranked
\* order (one per name) followed by embedding-search results whose name no
\* tag result has, in their ranked order: a leading part of them, which for a
\* positive limit is as many as fit under the limit.  No embedding-only
\* result stands before a tag result.
C29_TagResultsThenEmbeddingResults ==
    last.op = "search_tools"
    => /\ NoDuplicates(HybridTagTools)
       /\ \E k \in 0..Len(HybridEmbeddingOnly) :
            /\ last.result = HybridTagTools \o SubSeq(HybridEmbeddingOnly, 1, k)
            /\ last.limit > 0
                => k = Min(Len(HybridEmbeddingOnly),
                           IF last.limit > Len(HybridTagTools)
                           THEN last.limit - Len(HybridTagTools) ELSE 0)

\* the best embedding match is no tag result and stands after the tag results
C29_Witness ==
    /\ last.op = "search_tools"
    /\ HybridTagTools # <<>>
    /\ Len(last.result) > Len(HybridTagTools)
    /\ HybridEmbeddingTools[1].name \notin Names(HybridTagTools)
    /\ last.result[1] = HybridTagTools[1]

\* C30: with limit <= 0 the hybrid search is unbounded: every
\* embedding-search result (of the up to 10 asked for) whose name is not
\* among the tag results is in the returned list.
C30_NoLimitAppendsAllEmbeddingResults ==
    (last.op = "search_tools" /\ last.limit <= 0)
    => \A i \in DOMAIN HybridEmbeddingOnly :
        HybridEmbeddingOnly[i] \in Range(last.result)

\* what one call does to the catalog when it runs alone
RunAlone(repo, c) ==
    IF c.op = "save"
    THEN save_provider_with_tools(repo, c.provider, c.tools, c.embed)
    ELSE remove_provider(repo, c.provider).repo

\* the catalogs the two calls leave when one runs after the other
SerialOutcomes ==
    {RunAlone(RunAlone(TaskStart, tasks[o[1]].call), tasks[o[2]].call) :
        o \in {<<"first", "second">>, <<"second", "first">>}}

\* C21: two upsertProvider calls, or an upsertProvider and a removeProvider,
\* for the same provider name that interleave at their await points leave a
\* catalog that one of the two serial orders leaves as well, and the flat
\* sequence does not hold a tool name twice.
C21_ConcurrentCallsSerialize ==
    (/\ \A t \in TaskIds : tasks[t].pc = "done"
     /\ tasks["first"].call.provider = tasks["second"].call.provider
     /\ \E t \in TaskIds : tasks[t].call.op = "save")
    => /\ Repo \in SerialOutcomes
       /\ NoDuplicates(Repo_get_tools(Repo))

\* the tools of provider p in a flat sequence
ToolsNamedFor(flat, p) ==
    SelectSeq(flat, LAMBDA tool : SubSeq(tool.name, 1, Len(tool.name) - 1) = p)

\* C22: while one upsertProvider re-registers a provider that exists (the
\* other coroutine not started), a read at any point sees the provider, with
\* either its complete old tools or its complete new tools in the flat
\* sequence, and no embedding for a tool that is not in the flat sequence.
C22_ReadsSeeOldOrNew ==
    \A t \in TaskIds :
        (/\ tasks[t].pc \in {"embed_batch", "embed"}
         /\ \A u \in TaskIds \ {t} : tasks[u].pc = "idle"
         /\ tasks[t].call.provider \in Repo_get_providers(TaskStart))
        => LET p == tasks[t].call.provider
           IN /\ p \in Repo_get_providers(Repo)
              /\ ToolsNamedFor(Repo_get_tools(Repo), p)
                    \in {TaskStart.tool_per_provider[p], tasks[t].call.tools}
              /\ DOMAIN tool_embeddings \subseteq Names(Repo_get_tools(Repo))

\* ---- Claims C31..C38 ---------------------------------------------------

\* C31: in search_by_embedding a tool whose stored embedding has zero norm,
\* and every tool when the query vector has zero norm, is skipped: it is not
\* among the results.
C31_ZeroNormIsSkipped ==
    last.op = "search_by_embedding"
    => \A i \in DOMAIN last.result :
        LET v == vector_of(tool_embeddings[last.result[i].tool.name])
        IN /\ dot(v, v) # 0
           /\ dot(last.query_embedding, last.query_embedding) # 0

\* C32: a call of a synthesized proxy that passes Python's argument binding
\* makes exactly one call_tool call, for the tool's full name, whose argument
\* mapping holds exactly the supplied parameters, each under its original
\* schema property name and with the supplied value, and the proxy returns
\* call_tool's result or propagates its failure; the parameters are the
\* required properties first, then the optional ones.
C32_ForwardsExactlyTheSupplied ==
    (last.op = "invoke" /\ last.err # "TypeError")
    => /\ Len(last.call) = 1
       /\ last.call[1].name = last.proxy.name
       /\ DOMAIN last.call[1].args = {last.proxy.param_map[pn] : pn \in DOMAIN last.supplied}
       /\ \A pn \in DOMAIN last.supplied :
            last.call[1].args[last.proxy.param_map[pn]] = last.supplied[pn]
       /\ last.err = (IF last.call_fails THEN "ToolCallError" ELSE "none")
       /\ last.result = (IF last.call_fails THEN None ELSE "result")
       /\ \A i, j \in DOMAIN last.proxy.params :
            (last.proxy.params[i] \notin last.proxy.optional
             /\ last.proxy.params[j] \in last.proxy.optional) => i < j

\* the same for the proxies of _create_tool_proxy alone
C32_GuardedForwardsExactlyTheSupplied ==
    (last.op = "invoke" /\ last.proxy.guarded) => C32_ForwardsExactlyTheSupplied

C32_GuardedWitness ==
    /\ last.op = "invoke" /\ last.proxy.guarded /\ last.err = "none"
    /\ last.proxy.optional \ DOMAIN last.supplied # {}
    /\ DOMAIN last.supplied # {}

\* C33: the renaming is reversible: the parameter names that
\* _create_tool_proxy derives from the properties of one schema are pairwise
\* distinct, and every parameter is forwarded under the property it came from.
C33_RenamingIsInjective ==
    last.op = "create_tool_proxy"
    => /\ \A i, j \in DOMAIN last.proxy.params :
            i # j => last.proxy.params[i] # last.proxy.params[j]
       /\ \A pn \in Range(last.proxy.params) :
            py_name_safe(last.proxy.param_map[pn]) = pn

\* C34: a POST, DELETE or PUT request on /providers that starts with the
\* persisted list, the proxy's catalog and the client's catalog naming the
\* same providers ends with the three naming the same providers, whether it
\* succeeds or raises.
StoresAgree(file, proxy_client, direct_client) ==
    /\ Registered(proxy_client[1]) = NamesOf(read_providers_file(file))
    /\ Registered(direct_client[1]) = NamesOf(read_providers_file(file))
IsRequest(op) == op \in {"add_provider", "delete_provider", "replace_providers"}
C34_StoresStayConsistent ==
    [][(app = "running" /\ IsRequest(last'.op)
        /\ StoresAgree(providers_file, client, utcp_client))
       => StoresAgree(providers_file', client', utcp_client')]_vars

\* the same for the requests in which no collaborator raises
C34_ConsistentWithoutFaults ==
    [][(app = "running" /\ IsRequest(last'.op) /\ ~IsFault(last'.err)
        /\ StoresAgree(providers_file, client, utcp_client))
       => StoresAgree(providers_file', client', utcp_client')]_vars

\* C35: a proxy remove_provider that fails leaves the callables registered
\* with the runtime as they were before the call.
C35_FailedRemoveKeepsCallables ==
    [][(last'.op = "proxy_remove_provider" /\ last'.err # "none")
       => mcp_tools' = mcp_tools]_vars

\* C36: when two concurrent POST /providers requests have both succeeded,
\* their providers have different names and are both in the persisted list.
Succeeded(t) == tasks[t].pc = "done" /\ tasks[t].call.op = "post" /\ tasks[t].err = "none"
C36_ConcurrentPostsBothPersist ==
    (Succeeded("first") /\ Succeeded("second"))
    => /\ tasks["first"].call.provider.name # tasks["second"].call.provider.name
       /\ {tasks["first"].call.provider.name, tasks["second"].call.provider.name}
            \subseteq NamesOf(read_providers_file(providers_file))

\* its two halves apart
C36_NoLostUpdate ==
    (Succeeded("first") /\ Succeeded("second")
     /\ tasks["first"].call.provider.name # tasks["second"].call.provider.name)
    => {tasks["first"].call.provider.name, tasks["second"].call.provider.name}
            \subseteq NamesOf(read_providers_file(providers_file))
C36_SameNameNotTwice ==
    (Succeeded("first") /\ Succeeded("second"))
    => tasks["first"].call.provider.name # tasks["second"].call.provider.name

\* C37: when the proxy add_provider calls of two requests for different
\* providers have both returned, no tool was registered with the runtime by
\* both calls, and the tool of each provider is registered.
ProxyAdded(t) ==
    \/ tasks[t].pc = "register_client"
    \/ tasks[t].pc = "done" /\ tasks[t].call.op = "post" /\ tasks[t].err \in {"none", "OSError"}
C37_EachToolRegisteredOnce ==
    (/\ ProxyAdded("first") /\ ProxyAdded("second")
     /\ tasks["first"].call.provider.name # tasks["second"].call.provider.name)
    => /\ Range(tasks["first"].registered) \cap Range(tasks["second"].registered) = {}
       /\ \A t \in TaskIds :
            Names(Resolve(tasks[t].call.provider)) \subseteq DOMAIN mcp_tools

\* none is skipped, apart
C37_NoneSkipped ==
    \A t \in TaskIds :
        ProxyAdded(t) => Names(Resolve(tasks[t].call.provider)) \subseteq DOMAIN mcp_tools

\* C38: the handlers that have received a client have all received the one
\* the global holds, and at most one client was ever created.
Received(t) == tasks[t].pc = "done" /\ tasks[t].call.op = "handler" /\ tasks[t].err = "none"
Creations ==
    {t \in TaskIds : tasks[t].pc = "done" /\ tasks[t].call.op = "handler" /\ tasks[t].created}
    \cup (IF app = "running" THEN {"main"} ELSE {})
C38_SingleClientInstance ==
    /\ \A t \in TaskIds : Received(t) => tasks[t].client = utcp_client
    /\ Cardinality(Creations) <= 1

\* the same for the program run as a script, where main() has created the
\* client before a handler is served
C38_SingleInstanceAfterMain ==
    app = "running" => C38_SingleClientInstance

C38_AfterMainWitness ==
    /\ app = "running"
    /\ Received("first") /\ Received("second")

====
